---- MODULE Spec2Model ----
(***************************************************************************)
(* Model of the Character Inclusion Domain of cwe_checker                  *)
(* (abstract_domain/character_inclusion.rs) and of the State / Context     *)
(* layer of the abstract string analysis (analysis/abstract_string).       *)
(*                                                                         *)
(* A Rust panic (panic!, todo!) is modelled as a value tagged "Panic":     *)
(* the outcome of the call that unwinds.                                   *)
(***************************************************************************)
EXTENDS Integers, Sequences, FiniteSets, TLC

VARIABLES a, b, op, res, x, changes, state1, state2

vars == <<a, b, op, res, x, changes, state1, state2>>

(***************************************************************************)
(* Bounds of the model.  `char` is abstracted to the code points           *)
(* 1..AlphabetSize; strings have at most MaxLen characters; a State tracks *)
(* at most NumIds abstract identifiers.                                    *)
(***************************************************************************)
AlphabetSize == 2
MaxLen == 2
NumIds == 2

Alphabet == 1..AlphabetSize

Strings == UNION {[1..n -> Alphabet] : n \in 0..MaxLen}

AbstractIdentifiers == 1..NumIds

(***************************************************************************)
(* enum CharacterSet { Top, Value(HashSet<char>) }                         *)
(***************************************************************************)
CharacterSet_Top == [tag |-> "CharacterSet::Top"]

CharacterSet_Value(value) == [tag |-> "CharacterSet::Value", value |-> value]

CharacterSet == {CharacterSet_Top} \cup {CharacterSet_Value(s) : s \in SUBSET Alphabet}

(***************************************************************************)
(* enum CharacterInclusionDomain { Top, Value((CharacterSet, CharacterSet)) } *)
(***************************************************************************)
Top == [tag |-> "Top"]

Value(certain, possible) == [tag |-> "Value", certain |-> certain, possible |-> possible]

CharacterInclusionDomain == {Top} \cup {Value(c, p) : c \in CharacterSet, p \in CharacterSet}

(***************************************************************************)
(* The unwinding outcome of panic!(msg) / todo!().                         *)
(***************************************************************************)
Panic(msg) == [tag |-> "Panic", msg |-> msg]

IsPanic(v) == v.tag = "Panic"

NotCalled == [tag |-> "NotCalled"]

(***************************************************************************)
(* CharacterSet methods                                                    *)
(***************************************************************************)
CharacterSet_is_top(self) == self = CharacterSet_Top

CharacterSet_unwrap_value(self) ==
    IF self.tag = "CharacterSet::Value"
    THEN self.value
    ELSE Panic("Unexpected CharacterSet type.")

intersection_coerce(self, other) ==
    IF CharacterSet_is_top(self) \/ CharacterSet_is_top(other)
    THEN CharacterSet_Top
    ELSE CharacterSet_Value(CharacterSet_unwrap_value(self) \cap CharacterSet_unwrap_value(other))

intersection_difference(self, other) ==
    IF CharacterSet_is_top(self) \/ CharacterSet_is_top(other)
    THEN Panic("Unexpected Top Value for CharacterSet intersection.")
    ELSE CharacterSet_Value(CharacterSet_unwrap_value(self) \ CharacterSet_unwrap_value(other))

intersection(self, other) ==
    IF CharacterSet_is_top(self) \/ CharacterSet_is_top(other)
    THEN Panic("Unexpected Top Value for CharacterSet intersection.")
    ELSE CharacterSet_Value(CharacterSet_unwrap_value(self) \cap CharacterSet_unwrap_value(other))

union(self, other) ==
    IF CharacterSet_is_top(self) \/ CharacterSet_is_top(other)
    THEN CharacterSet_Top
    ELSE CharacterSet_Value(CharacterSet_unwrap_value(self) \cup CharacterSet_unwrap_value(other))

(***************************************************************************)
(* CharacterInclusionDomain methods                                        *)
(***************************************************************************)
is_top(self) == self = Top

top(self) == Top

unwrap_value(self) ==
    IF self.tag = "Value"
    THEN [tag |-> "Pair", certain |-> self.certain, possible |-> self.possible]
    ELSE Panic("Unexpected Character Inclusion type.")

\* impl From<String>: collect the characters of the string into a HashSet.
chars(string) == {string[i] : i \in DOMAIN string}

from(string) ==
    LET characters == chars(string)
    IN  Value(CharacterSet_Value(characters), CharacterSet_Value(characters))

\* A panic while the arguments of the Value constructor are evaluated
\* unwinds out of the whole call.
MakeValue(certain, possible) ==
    IF IsPanic(certain) THEN certain
    ELSE IF IsPanic(possible) THEN possible
    ELSE Value(certain, possible)

insert_string_domain_top_absorbs(self, string_domain) ==
    IF self.tag = "Value"
    THEN IF string_domain.tag = "Value"
         THEN MakeValue(union(self.certain, string_domain.certain),
                        union(self.possible, string_domain.possible))
         ELSE Top
    ELSE Top

insert_string_domain_intersects(self, string_domain) ==
    IF self.tag = "Value"
    THEN IF string_domain.tag = "Value"
         THEN MakeValue(intersection(self.certain, string_domain.certain),
                        union(self.possible, string_domain.possible))
         ELSE Value(self.certain, CharacterSet_Top)
    ELSE Top

insert_string_domain_keeps_possible(self, string_domain) ==
    IF self.tag = "Value"
    THEN IF string_domain.tag = "Value"
         THEN MakeValue(union(self.certain, string_domain.certain),
                        self.possible)
         ELSE Value(self.certain, CharacterSet_Top)
    ELSE Top

insert_string_domain_swapped_pair(self, string_domain) ==
    IF self.tag = "Value"
    THEN IF string_domain.tag = "Value"
         THEN MakeValue(union(self.certain, string_domain.certain),
                        union(self.possible, string_domain.possible))
         ELSE Value(CharacterSet_Top, self.certain)
    ELSE Top

insert_string_domain(self, string_domain) ==
    IF self.tag = "Value"
    THEN IF string_domain.tag = "Value"
         THEN MakeValue(union(self.certain, string_domain.certain),
                        union(self.possible, string_domain.possible))
         ELSE Value(self.certain, CharacterSet_Top)
    ELSE Top

merge_union_certain(self, other) ==
    IF is_top(self) \/ is_top(other)
    THEN Top
    ELSE LET self_value == unwrap_value(self)
             other_value == unwrap_value(other)
         IN  IF IsPanic(self_value) THEN self_value
             ELSE IF IsPanic(other_value) THEN other_value
             ELSE MakeValue(union(self_value.certain, other_value.certain),
                            union(self_value.possible, other_value.possible))

merge_swapped(self, other) ==
    IF is_top(self) \/ is_top(other)
    THEN Top
    ELSE LET self_value == unwrap_value(self)
             other_value == unwrap_value(other)
         IN  IF IsPanic(self_value) THEN self_value
             ELSE IF IsPanic(other_value) THEN other_value
             ELSE MakeValue(union(self_value.certain, other_value.certain),
                            intersection(self_value.possible, other_value.possible))

merge_keeps_self_certain(self, other) ==
    IF is_top(self) \/ is_top(other)
    THEN Top
    ELSE LET self_value == unwrap_value(self)
             other_value == unwrap_value(other)
         IN  IF IsPanic(self_value) THEN self_value
             ELSE IF IsPanic(other_value) THEN other_value
             ELSE MakeValue(self_value.certain,
                            union(self_value.possible, other_value.possible))

merge(self, other) ==
    IF is_top(self) \/ is_top(other)
    THEN Top
    ELSE LET self_value == unwrap_value(self)
             other_value == unwrap_value(other)
         IN  IF IsPanic(self_value) THEN self_value
             ELSE IF IsPanic(other_value) THEN other_value
             ELSE MakeValue(intersection(self_value.certain, other_value.certain),
                            union(self_value.possible, other_value.possible))

(***************************************************************************)
(* struct State<T> { strings_tracked: HashMap<AbstractIdentifier, T> }     *)
(* State derives Deserialize, so any map is a State a caller can hold;     *)
(* State::new() is the empty map.                                          *)
(***************************************************************************)
State(strings_tracked) == [tag |-> "State", strings_tracked |-> strings_tracked]

State_new == State([id \in {} |-> Top])

\* The body of State::merge is todo!(): the call panics.
State_merge(self, other) == Panic("not yet implemented")

\* The body of State::is_top is todo!(): the call panics.
State_is_top(self) == Panic("not yet implemented")

\* Context::merge delegates to State::merge.
Context_merge(s1, s2) == State_merge(s1, s2)

\* The States of the model: maps from a set of identifiers to the domain
\* values of string literals.
TrackedValues == {from(s) : s \in Strings}

States == {State(m) : m \in UNION {[D -> TrackedValues] : D \in SUBSET AbstractIdentifiers}}

(***************************************************************************)
(* Specification Spec: values built from string literals and Top by merge  *)
(* and insert_string_domain, held in two locations a and b.  A panic       *)
(* aborts the program: no operation runs after it.                         *)
(***************************************************************************)
Running == ~IsPanic(a) /\ ~IsPanic(b) /\ ~IsPanic(x)

Idle == /\ res = NotCalled
        /\ x = from(<< >>)
        /\ changes = 0
        /\ state1 = State_new
        /\ state2 = State_new

Init ==
    /\ a \in {from(s) : s \in Strings}
    /\ b \in {from(s) : s \in Strings}
    /\ op = "init"
    /\ Idle

From ==
    /\ Running
    /\ \E s \in Strings : b' = from(s)
    /\ op' = "from"
    /\ UNCHANGED <<a, res, x, changes, state1, state2>>

SetTop ==
    /\ Running
    /\ b' = top(b)
    /\ op' = "top"
    /\ UNCHANGED <<a, res, x, changes, state1, state2>>

Merge ==
    /\ Running
    /\ a' = merge(a, b)
    /\ op' = "merge"
    /\ UNCHANGED <<b, res, x, changes, state1, state2>>

Insert ==
    /\ Running
    /\ a' = insert_string_domain(a, b)
    /\ op' = "insert_string_domain"
    /\ UNCHANGED <<b, res, x, changes, state1, state2>>

Swap ==
    /\ Running
    /\ a' = b
    /\ b' = a
    /\ op' = "swap"
    /\ UNCHANGED <<res, x, changes, state1, state2>>

Next == From \/ SetTop \/ Merge \/ Insert \/ Swap

Spec == Init /\ [][Next]_vars

(***************************************************************************)
(* Specification SpecFixpoint: Spec plus one tracked location x that the   *)
(* fixpoint computation joins with incoming values (x := merge(x, b));     *)
(* changes counts the joins that changed x since x was last assigned.      *)
(***************************************************************************)
Assign ==
    /\ Running
    /\ x' = a
    /\ changes' = 0
    /\ UNCHANGED <<a, b, op, res, state1, state2>>

Join ==
    /\ Running
    /\ x' = merge(x, b)
    /\ changes' = IF x' # x THEN changes + 1 ELSE changes
    /\ UNCHANGED <<a, b, op, res, state1, state2>>

NextFixpoint == From \/ SetTop \/ Merge \/ Insert \/ Swap \/ Assign \/ Join

SpecFixpoint == Init /\ [][NextFixpoint]_vars

(***************************************************************************)
(* Specification SpecCalls: one call of an operation on arbitrary values   *)
(* of the (public) types; res is the value returned or the panic.          *)
(***************************************************************************)
InitCalls ==
    /\ a \in CharacterInclusionDomain
    /\ b \in CharacterInclusionDomain
    /\ op = "init"
    /\ Idle

CallMerge ==
    /\ op = "init"
    /\ res' = merge(a, b)
    /\ op' = "merge"
    /\ UNCHANGED <<a, b, x, changes, state1, state2>>

CallInsert ==
    /\ op = "init"
    /\ res' = insert_string_domain(a, b)
    /\ op' = "insert_string_domain"
    /\ UNCHANGED <<a, b, x, changes, state1, state2>>

CallIntersection ==
    /\ op = "init"
    /\ a.tag = "Value" /\ b.tag = "Value"
    /\ res' = intersection(a.certain, b.certain)
    /\ op' = "intersection"
    /\ UNCHANGED <<a, b, x, changes, state1, state2>>

CallUnion ==
    /\ op = "init"
    /\ a.tag = "Value" /\ b.tag = "Value"
    /\ res' = union(a.possible, b.possible)
    /\ op' = "union"
    /\ UNCHANGED <<a, b, x, changes, state1, state2>>

NextCalls == CallMerge \/ CallInsert \/ CallIntersection \/ CallUnion

SpecCalls == InitCalls /\ [][NextCalls]_vars

(***************************************************************************)
(* Specification SpecState: one call on States.                            *)
(***************************************************************************)
InitState ==
    /\ a = from(<< >>)
    /\ b = from(<< >>)
    /\ op = "init"
    /\ res = NotCalled
    /\ x = from(<< >>)
    /\ changes = 0
    /\ state1 \in States
    /\ state2 \in States

CallContextMerge ==
    /\ op = "init"
    /\ res' = Context_merge(state1, state2)
    /\ op' = "Context::merge"
    /\ UNCHANGED <<a, b, x, changes, state1, state2>>

CallStateIsTop ==
    /\ op = "init"
    /\ res' = State_is_top(state1)
    /\ op' = "State::is_top"
    /\ UNCHANGED <<a, b, x, changes, state1, state2>>

CallStateNew ==
    /\ op = "init"
    /\ res' = State_new
    /\ op' = "State::new"
    /\ UNCHANGED <<a, b, x, changes, state1, state2>>

NextState == CallContextMerge \/ CallStateIsTop \/ CallStateNew

SpecState == InitState /\ [][NextState]_vars

(***************************************************************************)
(* Properties                                                              *)
(***************************************************************************)
IsSet(cs) == cs.tag = "CharacterSet::Value"

\* Value((certain, possible)) with both components concrete sets.
IsConcrete(v) == v.tag = "Value" /\ IsSet(v.certain) /\ IsSet(v.possible)

\* The union of two possible sets, CharacterSet::Top standing for the alphabet.
JoinedPossible(p, q) ==
    IF IsSet(p) /\ IsSet(q) THEN CharacterSet_Value(p.value \cup q.value) ELSE CharacterSet_Top

CertainSubsetOfPossible ==
    \A v \in {a, b} : IsConcrete(v) => v.certain.value \subseteq v.possible.value

\* C2 witness: insert_string_domain has produced a value whose non-empty
\* certain set is a proper subset of its possible set.
CertainSubsetOfPossibleWitness ==
    /\ op = "insert_string_domain"
    /\ IsConcrete(a)
    /\ a.certain.value # {}
    /\ a.certain.value # a.possible.value
    /\ a.certain.value \subseteq a.possible.value

MergeCommutative ==
    (op = "merge" /\ IsConcrete(a) /\ IsConcrete(b)) => res = merge(b, a)

\* C4 witness: merge was called on two different concrete values and returned
\* a value that differs from both.
MergeCommutativeWitness ==
    /\ op = "merge"
    /\ IsConcrete(a) /\ IsConcrete(b)
    /\ a # b
    /\ res.tag = "Value" /\ res # a /\ res # b

\* C5 (as claimed): merge(a, a) = a for every value a of the type, either
\* component of a Value being a concrete set or CharacterSet::Top.
MergeIdempotentOnType ==
    (op = "merge" /\ a = b) => res = a

\* C5 (amended): merge(a, a) = a for Top and for every Value whose certain
\* component is a concrete set (possible being a set or CharacterSet::Top); for
\* a Value whose certain component is CharacterSet::Top the call panics.
MergeIdempotentCertainConcrete ==
    (op = "merge" /\ a = b) =>
        IF a.tag = "Value" /\ ~IsSet(a.certain) THEN IsPanic(res) ELSE res = a

\* C5 witness: merge(a, a) returned a for a Value with a non-empty certain set
\* and possible = CharacterSet::Top.
MergeIdempotentWitness ==
    /\ op = "merge"
    /\ a = b
    /\ a.tag = "Value" /\ IsSet(a.certain) /\ a.certain.value # {}
    /\ a.possible = CharacterSet_Top
    /\ res = a

\* C6: insert_string_domain(a, b) is Top if a is Top; else
\* Value(certain(a), CharacterSet::Top) if b is Top; else
\* Value(certain(a) \cup certain(b), possible(a) \cup possible(b)).
InsertMatchesReference ==
    op = "insert_string_domain" =>
        res = IF a = Top THEN Top
              ELSE IF b = Top THEN Value(a.certain, CharacterSet_Top)
              ELSE Value(JoinedPossible(a.certain, b.certain),
                         JoinedPossible(a.possible, b.possible))

\* C6 witness: inserting "2" into "1" gave certain = possible = {1, 2}, as
\* "Hello, " + "World" gives the union of the characters in both sets.
InsertMatchesReferenceWitness ==
    /\ op = "insert_string_domain"
    /\ a = from(<<1>>) /\ b = from(<<2>>)
    /\ res = Value(CharacterSet_Value({1, 2}), CharacterSet_Value({1, 2}))

\* Top read as (no certain character, whole alphabet possible) and
\* CharacterSet::Top as the whole alphabet.
SetOf(cs) == IF IsSet(cs) THEN cs.value ELSE Alphabet

CertainOf(v) == IF v = Top THEN {} ELSE SetOf(v.certain)

PossibleOf(v) == IF v = Top THEN Alphabet ELSE SetOf(v.possible)

\* C7: insert_string_domain(a, b) returns a value whose certain set contains
\* certain(a) and whose possible set contains possible(a).
InsertMonotone ==
    op = "insert_string_domain" =>
        /\ ~IsPanic(res)
        /\ CertainOf(a) \subseteq CertainOf(res)
        /\ PossibleOf(a) \subseteq PossibleOf(res)

\* C7 witness: a value with a certain character was extended by Top and kept
\* that character certain.
InsertMonotoneWitness ==
    /\ op = "insert_string_domain"
    /\ IsConcrete(a) /\ a.certain.value # {}
    /\ b = Top
    /\ res.tag = "Value" /\ res.certain = a.certain

\* C8 (as claimed): Context::merge of two States returns a State that has no
\* entry for a key present in only one of them and maps a key present in both
\* to the merge of its two values.
StateMergeDropsAbsentKeys ==
    op = "Context::merge" =>
        /\ res.tag = "State"
        /\ LET m1 == state1.strings_tracked
               m2 == state2.strings_tracked
               m  == res.strings_tracked
           IN  \A k \in AbstractIdentifiers :
                /\ (k \in DOMAIN m1 /\ k \notin DOMAIN m2) => k \notin DOMAIN m
                /\ (k \in DOMAIN m2 /\ k \notin DOMAIN m1) => k \notin DOMAIN m
                /\ (k \in DOMAIN m1 /\ k \in DOMAIN m2) =>
                        k \in DOMAIN m /\ m[k] = merge(m1[k], m2[k])

\* C9: intersection(a, b) panics exactly when a or b is CharacterSet::Top, and
\* returns the set intersection when both are concrete.
IntersectionPanicsIffTop ==
    op = "intersection" =>
        LET u == a.certain
            v == b.certain
        IN  /\ IsPanic(res) <=> (u = CharacterSet_Top \/ v = CharacterSet_Top)
            /\ (IsSet(u) /\ IsSet(v)) => res = CharacterSet_Value(u.value \cap v.value)

\* C9 witness: intersection was called with CharacterSet::Top on one side and
\* a concrete set on the other, and panicked.
IntersectionPanicsWitness ==
    /\ op = "intersection"
    /\ a.certain = CharacterSet_Top
    /\ IsSet(b.certain)
    /\ res = Panic("Unexpected Top Value for CharacterSet intersection.")

\* C10: in every value built from from / Top by merge and
\* insert_string_domain the certain component is never CharacterSet::Top, no
\* operation has panicked, and merge of the two values does not panic.
CertainNeverTop ==
    /\ \A v \in {a, b} : ~IsPanic(v) /\ (v.tag = "Value" => IsSet(v.certain))
    /\ ~IsPanic(merge(a, b))

\* C10 witness: merge ran on a value whose possible component is
\* CharacterSet::Top and returned a Value.
CertainNeverTopWitness ==
    /\ op = "merge"
    /\ a.tag = "Value"
    /\ a.possible = CharacterSet_Top
    /\ b.tag = "Value" /\ IsSet(b.possible)

====
